---------------------------- MODULE Spec2Model ----------------------------
(***************************************************************************)
(* framed: the layered metabolic-model classes of core/models.py           *)
(* (StoichiometricModel, ConstraintBasedModel, GPRConstrainedModel) and    *)
(* the reversibility transformation of core/transformation.py.             *)
(*                                                                         *)
(* Conventions of the translation                                          *)
(*  - The sources are Python 2 (print statement, implicit relative import, *)
(*    list-returning keys()/items()).  dict.items() is therefore a         *)
(*    snapshot list, and deleting from a collections.OrderedDict while     *)
(*    iterating over it visits every key (the 2.7 iterator walks the       *)
(*    linked list and a deleted link keeps its successor pointer).         *)
(*  - A Python string is a sequence of one-character strings.              *)
(*  - An optional value is None == <<>> or Some(v) == <<v>>.               *)
(*  - An OrderedDict is a sequence of <<key, value>> pairs without         *)
(*    duplicate keys, in insertion order.                                   *)
(*  - Floats are modelled by integers.                                     *)
(*  - A method is an operator from a model record to a model record; the   *)
(*    field exc names the exception that ended the call ("" when none).    *)
(***************************************************************************)
EXTENDS Integers, Sequences, FiniteSets, TLC

VARIABLES kind,            \* class of the model object
          metabolites,     \* self.metabolites
          reactions,       \* self.reactions
          compartments,    \* self.compartments
          stoichiometry,   \* self.stoichiometry
          bounds,          \* self.bounds          (ConstraintBasedModel and deeper)
          genes,           \* self.genes           (GPRConstrainedModel)
          rules,           \* self.rules           (GPRConstrainedModel)
          rule_functions,  \* self.rule_functions  (GPRConstrainedModel)
          call,            \* the last call made on the model: [op, args]
          pre,             \* the model as it was when that call was made
          raised,          \* the exception that call ended in, "" when it returned
          returned,        \* what that call returned (None for the mutators)
          nops             \* number of calls made so far

vars == <<kind, metabolites, reactions, compartments, stoichiometry, bounds,
          genes, rules, rule_functions, call, pre, raised, returned, nops>>

-----------------------------------------------------------------------------
(* Python values *)

None == <<>>
Some(v) == <<v>>

Neg(x) == 0 - x

\* "not v" for an optional string: None and the empty string are false
Falsy(v) == v = None \/ v = Some(<<>>)

\* str.replace(old, new): left to right, non-overlapping
RECURSIVE Replace(_, _, _)
Replace(s, old, new) ==
    IF Len(s) < Len(old) THEN s
    ELSE IF SubSeq(s, 1, Len(old)) = old
         THEN new \o Replace(SubSeq(s, Len(old) + 1, Len(s)), old, new)
         ELSE <<Head(s)>> \o Replace(Tail(s), old, new)

-----------------------------------------------------------------------------
(* collections.OrderedDict *)

Keys(d) == [i \in DOMAIN d |-> d[i][1]]
KeySet(d) == {d[i][1] : i \in DOMAIN d}
In(k, d) == \E i \in DOMAIN d : d[i][1] = k
Get(d, k) == d[CHOOSE i \in DOMAIN d : d[i][1] = k][2]
\* Mutant of Put: the entry of a key that is present is moved to the end
Put_moves_to_end(d, k, v) ==
    Append(SelectSeq(d, LAMBDA e : e[1] # k), <<k, v>>)

Put(d, k, v) ==
    IF In(k, d)
    THEN [i \in DOMAIN d |-> IF d[i][1] = k THEN <<k, v>> ELSE d[i]]
    ELSE Append(d, <<k, v>>)
Del(d, k) == SelectSeq(d, LAMBDA e : e[1] # k)

ListHas(list, x) == \E i \in DOMAIN list : list[i] = x

-----------------------------------------------------------------------------
(* Entity records *)

Metabolite(elem_id, name, compartment) ==
    [id |-> elem_id, name |-> name, compartment |-> compartment]
Reaction(elem_id, name, reversible) ==
    [id |-> elem_id, name |-> name, reversible |-> reversible]
Gene(elem_id, name) == [id |-> elem_id, name |-> name]
Compartment(elem_id, name) == [id |-> elem_id, name |-> name]

-----------------------------------------------------------------------------
(* The three classes *)

StoichiometricModel == "StoichiometricModel"
ConstraintBasedModel == "ConstraintBasedModel"
GPRConstrainedModel == "GPRConstrainedModel"

\* isinstance(model, ConstraintBasedModel), isinstance(model, GPRConstrainedModel)
IsConstraintBased(m) == m.kind \in {ConstraintBasedModel, GPRConstrainedModel}
IsGPRConstrained(m) == m.kind = GPRConstrainedModel

\* __init__ of the class k: every mapping empty
NewModel(k) ==
    [kind |-> k, metabolites |-> <<>>, reactions |-> <<>>, compartments |-> <<>>,
     stoichiometry |-> <<>>, bounds |-> <<>>, genes |-> <<>>, rules |-> <<>>,
     rule_functions |-> <<>>, exc |-> ""]

Raise(m, e) == [m EXCEPT !.exc = e]
Ok(m) == m.exc = ""

-----------------------------------------------------------------------------
(* StoichiometricModel *)

\* Mutant of add_metabolite: the compartment is not looked up
add_metabolite_unchecked(m, metabolite) ==
    [m EXCEPT !.metabolites = Put(@, metabolite.id, metabolite)]

add_metabolite(m, metabolite) ==
    IF \/ (metabolite.compartment # None
             /\ In(metabolite.compartment[1], m.compartments))
       \/ Falsy(metabolite.compartment)
    THEN [m EXCEPT !.metabolites = Put(@, metabolite.id, metabolite)]
    ELSE m

Stoich_add_reaction(m, reaction) ==
    [m EXCEPT !.reactions = Put(@, reaction.id, reaction)]

add_compartment(m, compartment) ==
    [m EXCEPT !.compartments = Put(@, compartment.id, compartment)]

\* Mutant of add_stoichiometry: the loop ends at the first triple whose
\* metabolite or reaction is unknown
RECURSIVE add_stoichiometry_stops_at_unknown(_, _)
add_stoichiometry_stops_at_unknown(m, stoich) ==
    IF stoich = <<>> THEN m
    ELSE LET m_id == Head(stoich)[1]
             r_id == Head(stoich)[2]
             coeff == Head(stoich)[3]
         IN IF In(m_id, m.metabolites) /\ In(r_id, m.reactions)
            THEN add_stoichiometry_stops_at_unknown(
                     [m EXCEPT !.stoichiometry = Put(@, <<m_id, r_id>>, coeff)],
                     Tail(stoich))
            ELSE m

RECURSIVE add_stoichiometry(_, _)
add_stoichiometry(m, stoich) ==
    IF stoich = <<>> THEN m
    ELSE LET m_id == Head(stoich)[1]
             r_id == Head(stoich)[2]
             coeff == Head(stoich)[3]
             m1 == IF In(m_id, m.metabolites) /\ In(r_id, m.reactions)
                   THEN [m EXCEPT !.stoichiometry = Put(@, <<m_id, r_id>>, coeff)]
                   ELSE m
         IN add_stoichiometry(m1, Tail(stoich))

remove_metabolites(m, id_list) ==
    [m EXCEPT
       !.metabolites = SelectSeq(@, LAMBDA e : ~ListHas(id_list, e[1])),
       !.stoichiometry = SelectSeq(@, LAMBDA e : ~ListHas(id_list, e[1][1]))]

remove_metabolite(m, m_id) == remove_metabolites(m, <<m_id>>)

\* Mutant of Stoich_remove_reactions: the reactions are deleted and their edges
\* are left in the sparse map
Stoich_remove_reactions_keeps_edges(m, id_list) ==
    [m EXCEPT !.reactions = SelectSeq(@, LAMBDA e : ~ListHas(id_list, e[1]))]

Stoich_remove_reactions(m, id_list) ==
    [m EXCEPT
       !.reactions = SelectSeq(@, LAMBDA e : ~ListHas(id_list, e[1])),
       !.stoichiometry = SelectSeq(@, LAMBDA e : ~ListHas(id_list, e[1][2]))]

\* Mutant of remove_compartment: the compartment is deleted and its
\* metabolites are kept whatever delete_metabolites says
remove_compartment_keeps_metabolites(m, c_id, delete_metabolites) ==
    IF In(c_id, m.compartments)
    THEN [m EXCEPT !.compartments = Del(@, c_id)]
    ELSE m

\* Mutant of remove_compartment: the cascade deletes the metabolites and
\* leaves their edges
remove_compartment_keeps_edges(m, c_id, delete_metabolites) ==
    IF In(c_id, m.compartments)
    THEN LET m1 == [m EXCEPT !.compartments = Del(@, c_id)]
         IN IF delete_metabolites
            THEN [m1 EXCEPT !.metabolites =
                     SelectSeq(@, LAMBDA e : e[2].compartment # Some(c_id))]
            ELSE m1
    ELSE m

remove_compartment(m, c_id, delete_metabolites) ==
    IF In(c_id, m.compartments)
    THEN LET m1 == [m EXCEPT !.compartments = Del(@, c_id)]
             ids == Keys(SelectSeq(m1.metabolites,
                                   LAMBDA e : e[2].compartment = Some(c_id)))
         IN IF delete_metabolites THEN remove_metabolites(m1, ids) ELSE m1
    ELSE m

\* Mutant of stoichiometric_matrix: one row per reaction, one column per
\* metabolite
stoichiometric_matrix_transposed(m) ==
    [j \in DOMAIN m.reactions |->
       [i \in DOMAIN m.metabolites |->
          IF In(<<m.metabolites[i][1], m.reactions[j][1]>>, m.stoichiometry)
          THEN Get(m.stoichiometry, <<m.metabolites[i][1], m.reactions[j][1]>>)
          ELSE 0]]

stoichiometric_matrix(m) ==
    [i \in DOMAIN m.metabolites |->
       [j \in DOMAIN m.reactions |->
          IF In(<<m.metabolites[i][1], m.reactions[j][1]>>, m.stoichiometry)
          THEN Get(m.stoichiometry, <<m.metabolites[i][1], m.reactions[j][1]>>)
          ELSE 0]]

\* table[r_id][m_id] = coeff fails when r_id is no key of the table
lookup_table_raises(m) ==
    \E i \in DOMAIN m.stoichiometry : ~In(m.stoichiometry[i][1][2], m.reactions)

reaction_metabolite_lookup_table(m) ==
    [i \in DOMAIN m.reactions |->
       <<m.reactions[i][1],
         [j \in DOMAIN SelectSeq(m.stoichiometry,
                                 LAMBDA e : e[1][2] = m.reactions[i][1]) |->
            LET e == SelectSeq(m.stoichiometry,
                               LAMBDA x : x[1][2] = m.reactions[i][1])[j]
            IN <<e[1][1], e[2]>>]>>]

-----------------------------------------------------------------------------
(* ConstraintBasedModel *)

set_flux_bounds(m, r_id, lb, ub) ==
    IF In(r_id, m.reactions)
    THEN [m EXCEPT !.bounds = Put(@, r_id, <<lb, ub>>)]
    ELSE m

RECURSIVE set_bounds(_, _)
set_bounds(m, bounds_list) ==
    IF bounds_list = <<>> THEN m
    ELSE LET b == Head(bounds_list)
         IN set_bounds(set_flux_bounds(m, b[1], b[2], b[3]), Tail(bounds_list))

\* Mutant of set_lower_bound: the upper bound of the pair is reset
set_lower_bound_resets_upper(m, r_id, lb) ==
    IF In(r_id, m.reactions)
    THEN IF ~In(r_id, m.bounds) THEN Raise(m, "KeyError")
         ELSE [m EXCEPT !.bounds = Put(@, r_id, <<lb, None>>)]
    ELSE m

\* _, ub = self.bounds[r_id] raises KeyError when bounds has no entry
set_lower_bound(m, r_id, lb) ==
    IF In(r_id, m.reactions)
    THEN IF ~In(r_id, m.bounds) THEN Raise(m, "KeyError")
         ELSE [m EXCEPT !.bounds = Put(@, r_id, <<lb, Get(m.bounds, r_id)[2]>>)]
    ELSE m

set_upper_bound(m, r_id, ub) ==
    IF In(r_id, m.reactions)
    THEN IF ~In(r_id, m.bounds) THEN Raise(m, "KeyError")
         ELSE [m EXCEPT !.bounds = Put(@, r_id, <<Get(m.bounds, r_id)[1], ub>>)]
    ELSE m

\* Mutant of add_reaction: a reaction added again keeps the bounds it has
CB_add_reaction_keeps_bounds(m, reaction, lb, ub) ==
    [Stoich_add_reaction(m, reaction) EXCEPT
       !.bounds = IF In(reaction.id, @) THEN @
                  ELSE Put(@, reaction.id, <<lb, ub>>)]

CB_add_reaction(m, reaction, lb, ub) ==
    [Stoich_add_reaction(m, reaction) EXCEPT
       !.bounds = Put(@, reaction.id, <<lb, ub>>)]

\* for r_id in id_list: del self.bounds[r_id]
RECURSIVE del_bounds(_, _)
del_bounds(m, id_list) ==
    IF id_list = <<>> THEN m
    ELSE IF ~In(Head(id_list), m.bounds) THEN Raise(m, "KeyError")
    ELSE del_bounds([m EXCEPT !.bounds = Del(@, Head(id_list))], Tail(id_list))

CB_remove_reactions(m, id_list) ==
    del_bounds(Stoich_remove_reactions(m, id_list), id_list)

\* str.lower: the upper-case ASCII letters go to lower case
ascii_uppercase ==
    <<"A", "B", "C", "D", "E", "F", "G", "H", "I", "J", "K", "L", "M",
      "N", "O", "P", "Q", "R", "S", "T", "U", "V", "W", "X", "Y", "Z">>
ascii_lowercase ==
    <<"a", "b", "c", "d", "e", "f", "g", "h", "i", "j", "k", "l", "m",
      "n", "o", "p", "q", "r", "s", "t", "u", "v", "w", "x", "y", "z">>
lower(s) ==
    [i \in DOMAIN s |->
       IF \E n \in DOMAIN ascii_uppercase : ascii_uppercase[n] = s[i]
       THEN ascii_lowercase[CHOOSE n \in DOMAIN ascii_uppercase : ascii_uppercase[n] = s[i]]
       ELSE s[i]]

\* sub in s
Contains(sub, s) ==
    \E i \in 1..(Len(s) - Len(sub) + 1) : SubSeq(s, i, i + Len(sub) - 1) = sub

biomass == <<"b", "i", "o", "m", "a", "s", "s">>

\* Mutant of detect_biomass_reaction: the ids are searched as they are written
detect_biomass_reaction_case_sensitive(m) ==
    LET matches == SelectSeq(Keys(m.reactions), LAMBDA r_id : Contains(biomass, r_id))
    IN IF matches # <<>> THEN Some(matches[1]) ELSE None

detect_biomass_reaction(m) ==
    LET matches == SelectSeq(Keys(m.reactions), LAMBDA r_id : Contains(biomass, lower(r_id)))
    IN IF matches # <<>> THEN Some(matches[1]) ELSE None

-----------------------------------------------------------------------------
(* GPRConstrainedModel *)

Space == <<" ">>

\* for gene in self.genes: rule = rule.replace(' ' + gene + ' ', " x['" + gene + "'] ")
RECURSIVE substitute_genes(_, _)
substitute_genes(rule, gene_ids) ==
    IF gene_ids = <<>> THEN rule
    ELSE LET gene == Head(gene_ids)
         IN substitute_genes(
                Replace(rule, Space \o gene \o Space,
                        <<" ", "x", "[", "'">> \o gene \o <<"'", "]", " ">>),
                Tail(gene_ids))

\* The function returned is eval('lambda x: ' + rule); it is represented by
\* the text of its body.
rule_to_function(m, rule) ==
    IF Falsy(rule) THEN <<"T", "r", "u", "e">>
    ELSE substitute_genes(
             Space \o Replace(Replace(rule[1], <<"(">>, <<"(", " ">>),
                              <<")">>, <<" ", ")">>) \o Space,
             Keys(m.genes))

add_gene(m, gene) == [m EXCEPT !.genes = Put(@, gene.id, gene)]

RECURSIVE add_genes(_, _)
add_genes(m, gene_list) ==
    IF gene_list = <<>> THEN m
    ELSE add_genes(add_gene(m, Head(gene_list)), Tail(gene_list))

set_rule(m, r_id, rule) ==
    IF In(r_id, m.reactions)
    THEN [m EXCEPT !.rules = Put(@, r_id, rule),
                   !.rule_functions = Put(@, r_id, rule_to_function(m, rule))]
    ELSE m

RECURSIVE set_rules(_, _)
set_rules(m, rule_list) ==
    IF rule_list = <<>> THEN m
    ELSE set_rules(set_rule(m, Head(rule_list)[1], Head(rule_list)[2]), Tail(rule_list))

GPR_add_reaction(m, reaction, lb, ub, rule) ==
    set_rule(CB_add_reaction(m, reaction, lb, ub), reaction.id, rule)

\* for r_id in id_list: del self.rules[r_id]; del self.rule_functions[r_id]
RECURSIVE del_rules(_, _)
del_rules(m, id_list) ==
    IF id_list = <<>> THEN m
    ELSE LET r_id == Head(id_list)
         IN IF ~In(r_id, m.rules) THEN Raise(m, "KeyError")
            ELSE IF ~In(r_id, m.rule_functions)
                 THEN Raise([m EXCEPT !.rules = Del(@, r_id)], "KeyError")
                 ELSE del_rules([m EXCEPT !.rules = Del(@, r_id),
                                          !.rule_functions = Del(@, r_id)],
                                Tail(id_list))

GPR_remove_reactions(m, id_list) ==
    LET m1 == CB_remove_reactions(m, id_list)
    IN IF Ok(m1) THEN del_rules(m1, id_list) ELSE m1

\* eval('lambda x: ' + rule): the words of the text, parentheses on their own
RECURSIVE words(_, _)
words(text, word) ==
    LET flush == IF word = <<>> THEN <<>> ELSE <<word>>
    IN IF text = <<>> THEN flush
       ELSE IF Head(text) = " " THEN flush \o words(Tail(text), <<>>)
       ELSE IF Head(text) \in {"(", ")"}
            THEN flush \o <<<<Head(text)>>>> \o words(Tail(text), <<>>)
       ELSE words(Tail(text), Append(word, Head(text)))

kw_or == <<"o", "r">>
kw_and == <<"a", "n", "d">>
kw_not == <<"n", "o", "t">>

\* the expression grammar of Python: or_test, and_test, not_test, atom; each
\* gives the tree of the expression that starts at word i and the position
\* after it
RECURSIVE or_test(_, _), or_rest(_, _), and_test(_, _), and_rest(_, _), not_test(_, _), atom(_, _)
or_test(ws, i) == or_rest(ws, and_test(ws, i))
or_rest(ws, l) ==
    IF l.pos <= Len(ws) /\ ws[l.pos] = kw_or
    THEN LET r == and_test(ws, l.pos + 1)
         IN or_rest(ws, [tree |-> <<"or", l.tree, r.tree>>, pos |-> r.pos])
    ELSE l
and_test(ws, i) == and_rest(ws, not_test(ws, i))
and_rest(ws, l) ==
    IF l.pos <= Len(ws) /\ ws[l.pos] = kw_and
    THEN LET r == not_test(ws, l.pos + 1)
         IN and_rest(ws, [tree |-> <<"and", l.tree, r.tree>>, pos |-> r.pos])
    ELSE l
not_test(ws, i) ==
    IF i <= Len(ws) /\ ws[i] = kw_not
    THEN LET e == not_test(ws, i + 1)
         IN [tree |-> <<"not", e.tree>>, pos |-> e.pos]
    ELSE atom(ws, i)
atom(ws, i) ==
    IF i <= Len(ws) /\ ws[i] = <<"(">>
    THEN LET e == or_test(ws, i + 1) IN [tree |-> e.tree, pos |-> e.pos + 1]
    ELSE [tree |-> <<"name", ws[i]>>, pos |-> i + 1]

\* the function a compiled text stands for, as the tree of its body
lambda_x(text) == or_test(words(text, <<>>), 1).tree

\* the word x['gene'] of a compiled text
IsSubscript(word) ==
    /\ Len(word) > 5
    /\ SubSeq(word, 1, 3) = <<"x", "[", "'">>
    /\ SubSeq(word, Len(word) - 1, Len(word)) = <<"'", "]">>

\* the value of a word when the function runs: a lookup in x, a constant, or
\* a global name, which nothing defines
name_value(word, x) ==
    IF IsSubscript(word)
    THEN LET gene == SubSeq(word, 4, Len(word) - 2)
         IN IF gene \notin DOMAIN x THEN "KeyError"
            ELSE IF x[gene] THEN "True" ELSE "False"
    ELSE IF word = <<"T", "r", "u", "e">> THEN "True"
    ELSE IF word = <<"F", "a", "l", "s", "e">> THEN "False"
    ELSE "NameError"

\* f(x): and / or evaluate their right operand only when the left one does
\* not decide; an exception ends the evaluation
RECURSIVE call_function(_, _)
call_function(tree, x) ==
    IF tree[1] = "name" THEN name_value(tree[2], x)
    ELSE LET l == call_function(tree[2], x)
         IN IF tree[1] = "not"
            THEN (IF l = "True" THEN "False" ELSE IF l = "False" THEN "True" ELSE l)
            ELSE IF tree[1] = "and"
            THEN (IF l = "True" THEN call_function(tree[3], x) ELSE l)
            ELSE (IF l = "False" THEN call_function(tree[3], x) ELSE l)

\* [r_id for r_id, f in self.rule_functions.items() if f(genes_state)]
RECURSIVE active_reactions(_, _)
active_reactions(functions, genes_state) ==
    IF functions = <<>> THEN [exc |-> "", value |-> <<>>]
    ELSE LET v == call_function(lambda_x(Head(functions)[2]), genes_state)
             rest == active_reactions(Tail(functions), genes_state)
         IN IF v \notin {"True", "False"} THEN [exc |-> v, value |-> <<>>]
            ELSE IF rest.exc # "" THEN rest
            ELSE [exc |-> "",
                  value |-> (IF v = "True" THEN <<Head(functions)[1]>> ELSE <<>>)
                            \o rest.value]

eval_GPR(m, active_genes) ==
    active_reactions(m.rule_functions,
                     [gene \in KeySet(m.genes) |-> gene \in active_genes])

-----------------------------------------------------------------------------
(* Method resolution on the class of the model *)

\* model.add_reaction(reaction, lb, ub, rule); a class ignores (does not take)
\* the arguments of the deeper layers
add_reaction(m, reaction, lb, ub, rule) ==
    CASE m.kind = StoichiometricModel -> Stoich_add_reaction(m, reaction)
      [] m.kind = ConstraintBasedModel -> CB_add_reaction(m, reaction, lb, ub)
      [] m.kind = GPRConstrainedModel -> GPR_add_reaction(m, reaction, lb, ub, rule)

remove_reactions(m, id_list) ==
    CASE m.kind = StoichiometricModel -> Stoich_remove_reactions(m, id_list)
      [] m.kind = ConstraintBasedModel -> CB_remove_reactions(m, id_list)
      [] m.kind = GPRConstrainedModel -> GPR_remove_reactions(m, id_list)

remove_reaction(m, r_id) == remove_reactions(m, <<r_id>>)

-----------------------------------------------------------------------------
(* transformation.make_irreversible *)

\* model.add_rule: no class of models.py defines add_rule (the setter is
\* set_rule), so the attribute lookup raises before the arguments are read
add_rule(m, r_id, rule) == Raise(m, "AttributeError")

\* for m_id, coeff in table[r_id].items(): direct writes into model.stoichiometry
RECURSIVE split_edges(_, _, _, _)
split_edges(m, edges, fwd_id, bwd_id) ==
    IF edges = <<>> THEN m
    ELSE LET m_id == Head(edges)[1]
             coeff == Head(edges)[2]
         IN split_edges(
                [m EXCEPT !.stoichiometry =
                     Put(Put(@, <<m_id, fwd_id>>, coeff), <<m_id, bwd_id>>, Neg(coeff))],
                Tail(edges), fwd_id, bwd_id)

\* if isinstance(model, ConstraintBasedModel): ...
split_bounds(m, r_id, fwd_id, bwd_id) ==
    IF ~IsConstraintBased(m) THEN m
    ELSE IF ~In(r_id, m.bounds) THEN Raise(m, "KeyError")
    ELSE LET lb == Get(m.bounds, r_id)[1]
             ub == Get(m.bounds, r_id)[2]
         IN set_flux_bounds(set_flux_bounds(m, fwd_id, Some(0), ub),
                            bwd_id, Some(0),
                            IF lb # None THEN Some(Neg(lb[1])) ELSE None)

\* if isinstance(model, GPRConstrainedModel): ...
split_rules(m, r_id, fwd_id, bwd_id) ==
    IF ~IsGPRConstrained(m) THEN m
    ELSE LET rule == IF In(r_id, m.rules) THEN Get(m.rules, r_id) ELSE None
             m1 == add_rule(m, fwd_id, rule)
         IN IF Ok(m1) THEN add_rule(m1, bwd_id, rule) ELSE m1

Suffix_f == <<"_", "f">>
Suffix_b == <<"_", "b">>

\* Mutant of split_reaction: the two new reactions are flagged reversible
split_reaction_adds_reversible(m, r_id, reaction, table) ==
    LET fwd_id == reaction.id \o Suffix_f
        bwd_id == reaction.id \o Suffix_b
        m1 == add_reaction(m, Reaction(fwd_id, reaction.name, TRUE), None, None, None)
        m2 == add_reaction(m1, Reaction(bwd_id, reaction.name, TRUE), None, None, None)
        m3 == split_edges(m2, Get(table, r_id), fwd_id, bwd_id)
        m4 == split_bounds(m3, r_id, fwd_id, bwd_id)
        m5 == IF Ok(m4) THEN split_rules(m4, r_id, fwd_id, bwd_id) ELSE m4
    IN IF Ok(m5) THEN remove_reaction(m5, r_id) ELSE m5

\* Mutant of split_reaction: the original reaction is not removed after the split
split_reaction_keeps_original(m, r_id, reaction, table) ==
    LET fwd_id == reaction.id \o Suffix_f
        bwd_id == reaction.id \o Suffix_b
        m1 == add_reaction(m, Reaction(fwd_id, reaction.name, FALSE), None, None, None)
        m2 == add_reaction(m1, Reaction(bwd_id, reaction.name, FALSE), None, None, None)
        m3 == split_edges(m2, Get(table, r_id), fwd_id, bwd_id)
        m4 == split_bounds(m3, r_id, fwd_id, bwd_id)
    IN IF Ok(m4) THEN split_rules(m4, r_id, fwd_id, bwd_id) ELSE m4

\* the body of the loop for one reversible reaction
split_reaction(m, r_id, reaction, table) ==
    LET fwd_id == reaction.id \o Suffix_f
        bwd_id == reaction.id \o Suffix_b
        m1 == add_reaction(m, Reaction(fwd_id, reaction.name, FALSE), None, None, None)
        m2 == add_reaction(m1, Reaction(bwd_id, reaction.name, FALSE), None, None, None)
        m3 == split_edges(m2, Get(table, r_id), fwd_id, bwd_id)
        m4 == split_bounds(m3, r_id, fwd_id, bwd_id)
        m5 == IF Ok(m4) THEN split_rules(m4, r_id, fwd_id, bwd_id) ELSE m4
    IN IF Ok(m5) THEN remove_reaction(m5, r_id) ELSE m5

\* for r_id, reaction in model.reactions.items(): the items are a snapshot list,
\* and the mapping a dict, here a set of <<r_id, <<fwd_id, bwd_id>>>>
RECURSIVE split_all(_, _, _, _)
split_all(m, items, table, mapping) ==
    IF items = <<>> \/ ~Ok(m) THEN [model |-> m, mapping |-> mapping]
    ELSE LET r_id == Head(items)[1]
             reaction == Head(items)[2]
         IN IF reaction.reversible
            THEN split_all(split_reaction(m, r_id, reaction, table), Tail(items), table,
                           mapping \cup {<<r_id, <<reaction.id \o Suffix_f,
                                                   reaction.id \o Suffix_b>>>>})
            ELSE split_all(m, Tail(items), table, mapping)

make_irreversible(m) ==
    IF lookup_table_raises(m)
    THEN [model |-> Raise(m, "KeyError"), mapping |-> {}]
    ELSE split_all(m, m.reactions, reaction_metabolite_lookup_table(m), {})

-----------------------------------------------------------------------------
(* The calls explored *)

MaxOps == 4

Kinds == {StoichiometricModel, ConstraintBasedModel, GPRConstrainedModel}

c_id == <<"c">>
A == <<"A">>
B == <<"B">>
R == <<"R">>
R_f == <<"R", "_", "f">>
S == <<"S">>
g1 == <<"g", "1">>

CompartmentInputs == {Compartment(c_id, None)}
MetaboliteInputs == {Metabolite(A, None, Some(c_id)), Metabolite(B, None, None)}
ReactionInputs ==
    {Reaction(R, Some(<<"r">>), TRUE),
     Reaction(R_f, None, TRUE), Reaction(R_f, None, FALSE),
     Reaction(S, Some(<<"s">>), TRUE), Reaction(S, Some(<<"s">>), FALSE)}
\* (lb, ub, rule) of add_reaction: the defaults, or the values the class takes
ReactionArgs(k) ==
    {<<None, None, None>>}
    \cup (IF k = ConstraintBasedModel THEN {<<Some(0 - 2), Some(3), None>>} ELSE {})
    \cup (IF k = GPRConstrainedModel THEN {<<Some(0 - 2), Some(3), Some(g1)>>} ELSE {})
StoichiometryInputs ==
    {<<<<A, R, 0 - 1>>>>, <<<<B, R, 2>>>>, <<<<A, R_f, 0 - 1>>>>, <<<<B, S, 2>>>>,
     <<<<A, R, 0 - 1>>, <<B, R, 2>>>>,
     <<<<A, R, 5>>, <<B, S, 2>>, <<B, R, 3>>>>}
MetaboliteLists == {<<A>>, <<B>>}
ReactionIds == {R, S}
ReactionLists == {<<R, S>>}

\* the model object as a record
Self ==
    [kind |-> kind, metabolites |-> metabolites, reactions |-> reactions,
     compartments |-> compartments, stoichiometry |-> stoichiometry,
     bounds |-> bounds, genes |-> genes, rules |-> rules,
     rule_functions |-> rule_functions, exc |-> ""]

\* a model as a loader leaves it before the reactions are read: empty, or with
\* a compartment and two metabolites
Loaded(k) ==
    {NewModel(k),
     add_metabolite(
         add_metabolite(add_compartment(NewModel(k), Compartment(c_id, None)),
                        Metabolite(A, None, Some(c_id))),
         Metabolite(B, None, None))}

\* the call c made on the model leaves it as m2 and returns ret
Step(c, m2, ret) ==
    /\ nops < MaxOps
    /\ nops' = nops + 1
    /\ call' = c
    /\ pre' = Self
    /\ kind' = kind
    /\ metabolites' = m2.metabolites
    /\ reactions' = m2.reactions
    /\ compartments' = m2.compartments
    /\ stoichiometry' = m2.stoichiometry
    /\ bounds' = m2.bounds
    /\ genes' = m2.genes
    /\ rules' = m2.rules
    /\ rule_functions' = m2.rule_functions
    /\ raised' = m2.exc
    /\ returned' = ret

Init ==
    /\ kind \in Kinds
    /\ \E m \in Loaded(kind) :
         /\ metabolites = m.metabolites
         /\ reactions = m.reactions
         /\ compartments = m.compartments
         /\ stoichiometry = m.stoichiometry
         /\ bounds = m.bounds
         /\ genes = m.genes
         /\ rules = m.rules
         /\ rule_functions = m.rule_functions
         /\ pre = m
    /\ call = [op |-> "load"]
    /\ raised = ""
    /\ returned = None
    /\ nops = 0

AddCompartment ==
    \E compartment \in CompartmentInputs :
        Step([op |-> "add_compartment", compartment |-> compartment],
             add_compartment(Self, compartment), None)

AddMetabolite ==
    \E metabolite \in MetaboliteInputs :
        Step([op |-> "add_metabolite", metabolite |-> metabolite],
             add_metabolite(Self, metabolite), None)

AddReaction ==
    \E reaction \in ReactionInputs, a \in ReactionArgs(kind) :
        Step([op |-> "add_reaction", reaction |-> reaction,
              lb |-> a[1], ub |-> a[2], rule |-> a[3]],
             add_reaction(Self, reaction, a[1], a[2], a[3]), None)

AddStoichiometry ==
    \E stoich \in StoichiometryInputs :
        Step([op |-> "add_stoichiometry", stoichiometry |-> stoich],
             add_stoichiometry(Self, stoich), None)

RemoveMetabolites ==
    \E id_list \in MetaboliteLists :
        Step([op |-> "remove_metabolites", id_list |-> id_list],
             remove_metabolites(Self, id_list), None)

RemoveReaction ==
    \E r_id \in ReactionIds :
        Step([op |-> "remove_reaction", r_id |-> r_id],
             remove_reaction(Self, r_id), None)

RemoveReactions ==
    \E id_list \in ReactionLists :
        Step([op |-> "remove_reactions", id_list |-> id_list],
             remove_reactions(Self, id_list), None)

RemoveCompartment ==
    \E c \in {c_id}, delete_metabolites \in BOOLEAN :
        Step([op |-> "remove_compartment", c_id |-> c,
              delete_metabolites |-> delete_metabolites],
             remove_compartment(Self, c, delete_metabolites), None)

MakeIrreversible ==
    LET res == make_irreversible(Self)
    IN Step([op |-> "make_irreversible"], res.model,
            IF Ok(res.model) THEN Some(res.mapping) ELSE None)

StoichiometricMatrix ==
    Step([op |-> "stoichiometric_matrix"], Self, Some(stoichiometric_matrix(Self)))

Next ==
    \/ AddCompartment
    \/ AddMetabolite
    \/ AddReaction
    \/ AddStoichiometry
    \/ RemoveMetabolites
    \/ RemoveReaction
    \/ RemoveReactions
    \/ RemoveCompartment
    \/ MakeIrreversible
    \/ StoichiometricMatrix

Spec == Init /\ [][Next]_vars

-----------------------------------------------------------------------------
(* The calls on the flux bounds of a ConstraintBasedModel or deeper *)

BoundInputs == {<<None, None>>, <<Some(0), Some(5)>>}
BoundsLists == {<<<<R, Some(0 - 1), Some(1)>>, <<S, None, Some(0)>>>>}

SetFluxBounds ==
    \E r_id \in ReactionIds, b \in BoundInputs :
        Step([op |-> "set_flux_bounds", r_id |-> r_id, lb |-> b[1], ub |-> b[2]],
             set_flux_bounds(Self, r_id, b[1], b[2]), None)

SetBounds ==
    \E bounds_list \in BoundsLists :
        Step([op |-> "set_bounds", bounds_list |-> bounds_list],
             set_bounds(Self, bounds_list), None)

SetLowerBound ==
    \E r_id \in ReactionIds, lb \in {None, Some(1)} :
        Step([op |-> "set_lower_bound", r_id |-> r_id, lb |-> lb],
             set_lower_bound(Self, r_id, lb), None)

SetUpperBound ==
    \E r_id \in ReactionIds, ub \in {None, Some(4)} :
        Step([op |-> "set_upper_bound", r_id |-> r_id, ub |-> ub],
             set_upper_bound(Self, r_id, ub), None)

InitBounds == Init /\ IsConstraintBased(Self)

NextBounds ==
    \/ AddReaction
    \/ SetBounds
    \/ SetFluxBounds
    \/ SetLowerBound
    \/ SetUpperBound
    \/ RemoveReaction
    \/ RemoveReactions
    \/ MakeIrreversible

SpecBounds == InitBounds /\ [][NextBounds]_vars

-----------------------------------------------------------------------------
(* The partial updates of a bound pair, on reactions added with bounds and on *)
(* reactions put into the model by the add_reaction of the base class         *)

BoundedReactionInputs == {Reaction(R, None, TRUE), Reaction(S, None, FALSE)}

AddBoundedReaction ==
    \E reaction \in BoundedReactionInputs, b \in BoundInputs :
        Step([op |-> "add_reaction", reaction |-> reaction,
              lb |-> b[1], ub |-> b[2], rule |-> None],
             add_reaction(Self, reaction, b[1], b[2], None), None)

\* StoichiometricModel.add_reaction(model, reaction) on a constrained model
AddUnboundedReaction ==
    \E reaction \in BoundedReactionInputs :
        Step([op |-> "StoichiometricModel.add_reaction", reaction |-> reaction],
             Stoich_add_reaction(Self, reaction), None)

InitSetBounds == Init /\ IsConstraintBased(Self) /\ Self = NewModel(kind)

NextSetBounds ==
    \/ AddBoundedReaction
    \/ AddUnboundedReaction
    \/ SetLowerBound
    \/ SetUpperBound
    \/ RemoveReaction

SpecSetBounds == InitSetBounds /\ [][NextSetBounds]_vars

-----------------------------------------------------------------------------
(* The search for the biomass reaction of a ConstraintBasedModel or deeper *)

R_biomass == <<"R", "_">> \o biomass
BioMass_1 == <<"B", "i", "o", "M", "a", "s", "s", "_", "1">>
R_bio_mass == <<"R", "_", "b", "i", "o", "_", "m", "a", "s", "s">>
BiomassIds == {R, R_biomass, BioMass_1, R_bio_mass}

AddNamedReaction ==
    \E r_id \in BiomassIds :
        Step([op |-> "add_reaction", reaction |-> Reaction(r_id, None, FALSE),
              lb |-> None, ub |-> None, rule |-> None],
             add_reaction(Self, Reaction(r_id, None, FALSE), None, None, None), None)

RemoveNamedReaction ==
    \E r_id \in BiomassIds :
        Step([op |-> "remove_reaction", r_id |-> r_id],
             remove_reaction(Self, r_id), None)

DetectBiomassReaction ==
    Step([op |-> "detect_biomass_reaction"], Self, detect_biomass_reaction(Self))

NextBiomass ==
    \/ AddNamedReaction
    \/ RemoveNamedReaction
    \/ DetectBiomassReaction

SpecBiomass == InitSetBounds /\ [][NextBiomass]_vars

-----------------------------------------------------------------------------
(* The calls on the genes and rules of a GPRConstrainedModel *)

g2 == <<"g", "2">>
g1_or_g2 == g1 \o <<" ", "o", "r", " ">> \o g2
g1_and_g2 == g1 \o <<" ", "a", "n", "d", " ">> \o g2
not_g1 == <<"n", "o", "t", " ">> \o g1
g2_and_g1_or_g2 == g2 \o <<" ", "a", "n", "d", " ", "(">> \o g1_or_g2 \o <<")">>

GeneInputs == {Gene(g1, None), Gene(g2, None)}
GeneLists == {<<Gene(g2, None), Gene(g1, None)>>}
RuleInputs == {None, Some(g1_or_g2), Some(g1_and_g2), Some(not_g1), Some(g2_and_g1_or_g2)}
RuleLists == {<<<<R, Some(g1)>>, <<S, Some(<<>>)>>>>}
RuleReactionInputs == {Reaction(R, None, TRUE), Reaction(S, None, FALSE)}

AddGene ==
    \E gene \in GeneInputs :
        Step([op |-> "add_gene", gene |-> gene], add_gene(Self, gene), None)

AddGenes ==
    \E gene_list \in GeneLists :
        Step([op |-> "add_genes", genes |-> gene_list], add_genes(Self, gene_list), None)

AddReactionRule ==
    \E reaction \in RuleReactionInputs, rule \in RuleInputs :
        Step([op |-> "add_reaction", reaction |-> reaction,
              lb |-> None, ub |-> None, rule |-> rule],
             add_reaction(Self, reaction, None, None, rule), None)

SetRule ==
    \E r_id \in ReactionIds, rule \in RuleInputs :
        Step([op |-> "set_rule", r_id |-> r_id, rule |-> rule],
             set_rule(Self, r_id, rule), None)

SetRules ==
    \E rule_list \in RuleLists :
        Step([op |-> "set_rules", rules |-> rule_list], set_rules(Self, rule_list), None)

EvalGPR ==
    \E active_genes \in SUBSET {g1, g2} :
        LET res == eval_GPR(Self, active_genes)
        IN Step([op |-> "eval_GPR", active_genes |-> active_genes],
                Raise(Self, res.exc),
                IF res.exc = "" THEN Some(res.value) ELSE None)

\* a new GPRConstrainedModel
InitGPR == Init /\ Self = NewModel(GPRConstrainedModel)

NextGPR ==
    \/ AddGene
    \/ AddGenes
    \/ AddReactionRule
    \/ SetRule
    \/ SetRules
    \/ RemoveReaction
    \/ RemoveReactions
    \/ EvalGPR

SpecGPR == InitGPR /\ [][NextGPR]_vars

-----------------------------------------------------------------------------
(* The calls on compartments and metabolites, with metabolites that name a   *)
(* compartment by the empty string or come with another record for their id  *)

MetaboliteRecords ==
    MetaboliteInputs \cup
    {Metabolite(A, Some(<<"a">>), Some(c_id)), Metabolite(A, Some(<<"a">>), None),
     Metabolite(B, None, Some(<<>>))}

AddMetaboliteRecord ==
    \E metabolite \in MetaboliteRecords :
        Step([op |-> "add_metabolite", metabolite |-> metabolite],
             add_metabolite(Self, metabolite), None)

RemoveMetabolite ==
    \E m_id \in {A, B} :
        Step([op |-> "remove_metabolite", m_id |-> m_id],
             remove_metabolite(Self, m_id), None)

NextCompartments ==
    \/ AddCompartment
    \/ AddMetaboliteRecord
    \/ RemoveMetabolite
    \/ RemoveCompartment

SpecCompartments == Init /\ [][NextCompartments]_vars

-----------------------------------------------------------------------------
(* Vocabulary of the properties *)

AfterCall(op) == call.op = op

Fwd(r_id) == r_id \o Suffix_f
Bwd(r_id) == r_id \o Suffix_b

\* ids of the reactions flagged reversible / irreversible when the call was made
ReversibleBefore ==
    {pre.reactions[i][1] : i \in {j \in DOMAIN pre.reactions : pre.reactions[j][2].reversible}}
IrreversibleBefore ==
    {pre.reactions[i][1] : i \in {j \in DOMAIN pre.reactions : ~pre.reactions[j][2].reversible}}

\* the edges of reaction r_id in the sparse map st, as a set of <<m_id, coeff>>
EdgesOf(st, r_id) == {<<st[i][1][1], st[i][2]>> : i \in {j \in DOMAIN st : st[j][1][2] = r_id}}

IsIrreversibleNow(r_id) == In(r_id, reactions) /\ ~Get(reactions, r_id).reversible

-----------------------------------------------------------------------------
(* C1: after make_irreversible on a model of any of the three classes, each  *)
(* reaction that was reversible when the call was made is absent from        *)
(* reactions, and <id>_f and <id>_b are both reactions flagged irreversible. *)
C1_SplitReplacesReversible ==
    AfterCall("make_irreversible") =>
        \A r \in ReversibleBefore :
            /\ ~In(r, reactions)
            /\ IsIrreversibleNow(Fwd(r))
            /\ IsIrreversibleNow(Bwd(r))

(* C2: for every edge (m, r) with coefficient c present when make_irreversible *)
(* is called, r reversible: afterwards stoichiometry[(m, r_f)] = c and         *)
(* stoichiometry[(m, r_b)] = -c, the edge (m, r) is gone, and r_f and r_b have *)
(* no edges other than those derived from the edges of r.                      *)
C2_SplitEdges ==
    AfterCall("make_irreversible") =>
        \A r \in ReversibleBefore :
            /\ \A e \in EdgesOf(pre.stoichiometry, r) :
                  /\ In(<<e[1], Fwd(r)>>, stoichiometry)
                  /\ Get(stoichiometry, <<e[1], Fwd(r)>>) = e[2]
                  /\ In(<<e[1], Bwd(r)>>, stoichiometry)
                  /\ Get(stoichiometry, <<e[1], Bwd(r)>>) = Neg(e[2])
                  /\ ~In(<<e[1], r>>, stoichiometry)
            /\ EdgesOf(stoichiometry, Fwd(r)) = EdgesOf(pre.stoichiometry, r)
            /\ EdgesOf(stoichiometry, Bwd(r)) =
                  {<<e[1], Neg(e[2])>> : e \in EdgesOf(pre.stoichiometry, r)}

(* C3: on a model that carries bounds, for every reversible reaction r whose  *)
(* bounds are (lb, ub) when make_irreversible is called: afterwards           *)
(* bounds[r_f] = (0, ub), and bounds[r_b] = (0, -lb) for a finite lb and      *)
(* (0, unbounded) for an unbounded lb.                                        *)
C3_SplitBounds ==
    (AfterCall("make_irreversible") /\ IsConstraintBased(pre)) =>
        \A r \in ReversibleBefore :
            In(r, pre.bounds) =>
                LET lb == Get(pre.bounds, r)[1]
                    ub == Get(pre.bounds, r)[2]
                IN /\ In(Fwd(r), bounds)
                   /\ Get(bounds, Fwd(r)) = <<Some(0), ub>>
                   /\ In(Bwd(r), bounds)
                   /\ Get(bounds, Bwd(r)) =
                         <<Some(0), IF lb = None THEN None ELSE Some(Neg(lb[1]))>>

(* C4: on a GPRConstrainedModel, for every reversible reaction r whose rule   *)
(* text is t when make_irreversible is called: the call completes, and        *)
(* afterwards rules[r_f] = t and rules[r_b] = t, each with a compiled         *)
(* predicate of its own that evaluates like the predicate r had.              *)
C4_SplitRules ==
    (AfterCall("make_irreversible") /\ IsGPRConstrained(pre)) =>
        \A r \in ReversibleBefore :
            In(r, pre.rules) =>
                /\ raised = ""
                /\ In(Fwd(r), rules) /\ Get(rules, Fwd(r)) = Get(pre.rules, r)
                /\ In(Bwd(r), rules) /\ Get(rules, Bwd(r)) = Get(pre.rules, r)
                /\ In(Fwd(r), rule_functions)
                /\ Get(rule_functions, Fwd(r)) = rule_to_function(pre, Get(pre.rules, r))
                /\ In(Bwd(r), rule_functions)
                /\ Get(rule_functions, Bwd(r)) = rule_to_function(pre, Get(pre.rules, r))

(* C5: make_irreversible is the identity on the non-reversible part of the    *)
(* model: every reaction irreversible when the call is made still exists with *)
(* the same id, name and flag, the same edges and coefficients, the same      *)
(* bounds and the same rule; metabolites and compartments are unchanged.      *)
C5_IrreversibleUntouched ==
    AfterCall("make_irreversible") =>
        /\ metabolites = pre.metabolites
        /\ compartments = pre.compartments
        /\ \A r \in IrreversibleBefore :
              /\ In(r, reactions)
              /\ Get(reactions, r) = Get(pre.reactions, r)
              /\ EdgesOf(stoichiometry, r) = EdgesOf(pre.stoichiometry, r)
              /\ In(r, pre.bounds) => (In(r, bounds) /\ Get(bounds, r) = Get(pre.bounds, r))
              /\ In(r, pre.rules) => (In(r, rules) /\ Get(rules, r) = Get(pre.rules, r))

(* C6: make_irreversible returns a mapping whose key set is exactly the ids   *)
(* of the reactions reversible when the call was made, each id r mapped to    *)
(* (r_f, r_b), and both ids of every pair are reactions of the model when the *)
(* call returns.                                                              *)
C6_ReturnedMapping ==
    AfterCall("make_irreversible") =>
        /\ returned = Some({<<r, <<Fwd(r), Bwd(r)>>>> : r \in ReversibleBefore})
        /\ \A r \in ReversibleBefore : In(Fwd(r), reactions) /\ In(Bwd(r), reactions)

(* C7: after make_irreversible on a ConstraintBasedModel every reaction of    *)
(* the model is flagged irreversible, whatever mix of reversible and          *)
(* irreversible reactions it held before.                                     *)
C7_AllIrreversible ==
    (AfterCall("make_irreversible") /\ kind = ConstraintBasedModel) =>
        \A i \in DOMAIN reactions : ~reactions[i][2].reversible

\* make_irreversible ran on a ConstraintBasedModel that held reversible and
\* irreversible reactions
C7_Witness ==
    /\ AfterCall("make_irreversible") /\ kind = ConstraintBasedModel
    /\ ReversibleBefore # {} /\ IrreversibleBefore # {}
    /\ Len(reactions) >= 3

(* C8: every core operation applies completely or leaves the whole model as   *)
(* it was before the call; a call that ends in an error leaves no partial     *)
(* change behind.                                                             *)
C8_FailedCallChangesNothing ==
    raised # "" => Self = pre

(* C9: after remove_reaction(r) on a model of any class no stoichiometry key  *)
(* has r as its reaction id, bounds, rules and rule_functions have no entry   *)
(* for r, and r is absent from reactions.                                     *)
C9_RemoveReactionCascades ==
    AfterCall("remove_reaction") =>
        /\ ~In(call.r_id, reactions)
        /\ EdgesOf(stoichiometry, call.r_id) = {}
        /\ ~In(call.r_id, bounds)
        /\ ~In(call.r_id, rules)
        /\ ~In(call.r_id, rule_functions)

(* C10: in every state reached by the public operations, every key (m, r) of  *)
(* stoichiometry has m in metabolites and r in reactions.                     *)
C10_EdgesReferenceExisting ==
    \A i \in DOMAIN stoichiometry :
        /\ In(stoichiometry[i][1][1], metabolites)
        /\ In(stoichiometry[i][1][2], reactions)

\* edges existed, and a call removed a metabolite or a reaction (directly, by a
\* compartment cascade or by a split) and left edges behind
C10_Witness ==
    /\ pre.stoichiometry # <<>>
    /\ stoichiometry # <<>>
    /\ \/ KeySet(pre.reactions) \ KeySet(reactions) # {}
       \/ KeySet(pre.metabolites) \ KeySet(metabolites) # {}

(* C11: on a ConstraintBasedModel or deeper, in every state reached by       *)
(* add_reaction, set_bounds, set_flux_bounds, set_lower_bound,                *)
(* set_upper_bound, remove_reaction(s) and make_irreversible (states left by  *)
(* a call that raised included), bounds and reactions have the same key set.  *)
C11_BoundsKeysAreReactionKeys ==
    IsConstraintBased(Self) => KeySet(bounds) = KeySet(reactions)

(* C12: on a GPRConstrainedModel, in every state reached by add_reaction(s),  *)
(* set_rule(s), remove_reaction(s) and add_gene(s), rules and rule_functions  *)
(* have the same key set, and that key set is the key set of reactions.       *)
C12_RuleKeysAreReactionKeys ==
    IsGPRConstrained(Self) =>
        /\ KeySet(rules) = KeySet(rule_functions)
        /\ KeySet(rules) = KeySet(reactions)

(* C13: in every state reached by add_compartment, add_metabolite,            *)
(* remove_metabolite and remove_compartment (cascade on or off), every        *)
(* metabolite whose compartment is non-null has a compartment id that is a    *)
(* key of compartments.                                                       *)
C13_CompartmentsResolve ==
    \A i \in DOMAIN metabolites :
        metabolites[i][2].compartment # None =>
            In(metabolites[i][2].compartment[1], compartments)

\* the compartment of every metabolite of m is unset (None or '') or a key of
\* m.compartments
CompartmentsResolveOrUnset(m) ==
    \A i \in DOMAIN m.metabolites :
        \/ Falsy(m.metabolites[i][2].compartment)
        \/ In(m.metabolites[i][2].compartment[1], m.compartments)

(* C13 (amended): a model as loaded has, for every metabolite, a compartment  *)
(* that is unset (null or the empty string) or a key of compartments, and     *)
(* every call of add_compartment, add_metabolite, remove_metabolite and       *)
(* remove_compartment with cascade on keeps it so.                            *)
C13_CascadeKeepsCompartmentsResolved ==
    /\ CompartmentsResolveOrUnset(Self)
    /\ [][(/\ CompartmentsResolveOrUnset(Self)
           /\ ~(call'.op = "remove_compartment" /\ ~call'.delete_metabolites))
          => CompartmentsResolveOrUnset(Self)']_vars

\* a cascading remove_compartment took metabolites with it, and a metabolite
\* with the empty string for a compartment is in the model
C13_Witness ==
    /\ AfterCall("remove_compartment") /\ call.delete_metabolites
    /\ In(call.c_id, pre.compartments)
    /\ Len(metabolites) < Len(pre.metabolites)
    /\ \E i \in DOMAIN metabolites : metabolites[i][2].compartment = Some(<<>>)
    /\ CompartmentsResolveOrUnset(Self)

\* triple i of the list names a metabolite and a reaction the model held when
\* the call was made
KnownTriple(l, i) == In(l[i][1], pre.metabolites) /\ In(l[i][2], pre.reactions)
\* the positions of the list whose triple is known and has the key k
InstallsOf(l, k) == {i \in DOMAIN l : KnownTriple(l, i) /\ <<l[i][1], l[i][2]>> = k}
Max(ns) == CHOOSE n \in ns : \A o \in ns : o <= n

(* C14: add_stoichiometry handles each triple (m, r, c) of its list on its    *)
(* own: with m in metabolites and r in reactions it sets                      *)
(* stoichiometry[(m, r)] = c, replacing an existing coefficient; otherwise it *)
(* skips the triple without error and without a change; the triples before   *)
(* and after a skipped one are installed. Nothing else of the model changes.  *)
C14_AddStoichiometryPerTriple ==
    AfterCall("add_stoichiometry") =>
        LET l == call.stoichiometry
        IN /\ raised = ""
           /\ [Self EXCEPT !.stoichiometry = pre.stoichiometry] = pre
           /\ \A k \in KeySet(pre.stoichiometry) \cup KeySet(stoichiometry)
                     \cup {<<l[i][1], l[i][2]>> : i \in DOMAIN l} :
                 IF InstallsOf(l, k) # {}
                 THEN In(k, stoichiometry)
                      /\ Get(stoichiometry, k) = l[Max(InstallsOf(l, k))][3]
                 ELSE /\ In(k, stoichiometry) <=> In(k, pre.stoichiometry)
                      /\ In(k, stoichiometry) =>
                            Get(stoichiometry, k) = Get(pre.stoichiometry, k)

\* a list of three triples: the first replaced a coefficient, the second was
\* skipped, the third was installed
C14_Witness ==
    /\ AfterCall("add_stoichiometry")
    /\ Len(call.stoichiometry) = 3
    /\ LET l == call.stoichiometry
       IN /\ KnownTriple(l, 1) /\ ~KnownTriple(l, 2) /\ KnownTriple(l, 3)
          /\ In(<<l[1][1], l[1][2]>>, pre.stoichiometry)
          /\ Get(pre.stoichiometry, <<l[1][1], l[1][2]>>) # l[1][3]
          /\ ~In(<<l[3][1], l[3][2]>>, pre.stoichiometry)
          /\ In(<<l[3][1], l[3][2]>>, stoichiometry)

\* add_metabolite left the model with the record mt under its id, every other
\* metabolite and every other field as before
InsertedOrReplaced(mt) ==
    /\ KeySet(metabolites) = KeySet(pre.metabolites) \cup {mt.id}
    /\ Get(metabolites, mt.id) = mt
    /\ \A k \in KeySet(pre.metabolites) \ {mt.id} :
          Get(metabolites, k) = Get(pre.metabolites, k)
    /\ [Self EXCEPT !.metabolites = pre.metabolites] = pre

(* C15: add_metabolite with a non-null compartment id that is no key of       *)
(* compartments signals no error and leaves the model unchanged (a metabolite *)
(* of the same id keeps its old record); with a null compartment or an        *)
(* existing compartment it inserts the metabolite or replaces the record of   *)
(* the same id.                                                               *)
C15_AddMetaboliteNonNull ==
    AfterCall("add_metabolite") =>
        LET mt == call.metabolite
        IN /\ raised = ""
           /\ IF mt.compartment # None /\ ~In(mt.compartment[1], pre.compartments)
              THEN Self = pre
              ELSE InsertedOrReplaced(mt)

(* C15 (amended): add_metabolite with a compartment id that is neither null   *)
(* nor the empty string and is no key of compartments signals no error and    *)
(* leaves the model unchanged; with a null or empty compartment id or an      *)
(* existing compartment it inserts the metabolite or replaces the record of   *)
(* the same id.                                                               *)
C15_AddMetaboliteNonEmpty ==
    AfterCall("add_metabolite") =>
        LET mt == call.metabolite
        IN /\ raised = ""
           /\ IF ~Falsy(mt.compartment) /\ ~In(mt.compartment[1], pre.compartments)
              THEN Self = pre
              ELSE InsertedOrReplaced(mt)

\* a metabolite naming a missing compartment was refused while the model held
\* another record under its id
C15_Witness ==
    /\ AfterCall("add_metabolite")
    /\ ~Falsy(call.metabolite.compartment)
    /\ ~In(call.metabolite.compartment[1], pre.compartments)
    /\ In(call.metabolite.id, metabolites)
    /\ Get(metabolites, call.metabolite.id) # call.metabolite

\* the keys of old that are still in new come first in new, in the order they
\* had in old; the keys new to the mapping follow them
OrderKept(old, new) ==
    LET surviving == SelectSeq(Keys(old), LAMBDA k : In(k, new))
    IN Len(surviving) <= Len(new)
       /\ SubSeq(Keys(new), 1, Len(surviving)) = surviving

(* C16: for metabolites, reactions and compartments the iteration order is    *)
(* the order of first insertion since the last removal: every add and remove  *)
(* call (and every other call but make_irreversible, which is a sequence of   *)
(* adds and removes of its own) keeps the relative order of the ids that stay *)
(* and puts new ids at the end, so adding an id that is present replaces the  *)
(* record in place and an id that was removed and is added again goes to the  *)
(* end.                                                                       *)
C16_InsertionOrder ==
    /\ ~AfterCall("make_irreversible") =>
          /\ OrderKept(pre.metabolites, metabolites)
          /\ OrderKept(pre.reactions, reactions)
          /\ OrderKept(pre.compartments, compartments)
    /\ AfterCall("add_compartment") =>
          /\ KeySet(compartments) = KeySet(pre.compartments) \cup {call.compartment.id}
          /\ Get(compartments, call.compartment.id) = call.compartment
    /\ AfterCall("add_reaction") =>
          /\ KeySet(reactions) = KeySet(pre.reactions) \cup {call.reaction.id}
          /\ Get(reactions, call.reaction.id) = call.reaction
    /\ (AfterCall("add_metabolite") /\ metabolites # pre.metabolites) =>
          /\ KeySet(metabolites) = KeySet(pre.metabolites) \cup {call.metabolite.id}
          /\ Get(metabolites, call.metabolite.id) = call.metabolite

\* metabolite A of the loaded model was removed and added again: it follows B
C16_Witness ==
    /\ nops = 2
    /\ AfterCall("add_metabolite") /\ call.metabolite.id = A
    /\ ~In(A, pre.metabolites)
    /\ Keys(metabolites) = <<B, A>>

(* C17: in every reachable state stoichiometric_matrix() has one row per     *)
(* metabolite and one column per reaction, both in insertion order; its entry *)
(* at (row i, column j) is stoichiometry[(metabolite_i, reaction_j)] when     *)
(* that key is present and 0 otherwise; and every stoichiometry entry appears *)
(* in the matrix.                                                             *)
C17_MatrixIsDenseStoichiometry ==
    LET matrix == stoichiometric_matrix(Self)
    IN /\ Len(matrix) = Len(metabolites)
       /\ \A i \in DOMAIN matrix : Len(matrix[i]) = Len(reactions)
       /\ \A i \in DOMAIN metabolites, j \in DOMAIN reactions :
             \/ \E e \in DOMAIN stoichiometry :
                   /\ stoichiometry[e][1] = <<Keys(metabolites)[i], Keys(reactions)[j]>>
                   /\ matrix[i][j] = stoichiometry[e][2]
             \/ /\ ~In(<<Keys(metabolites)[i], Keys(reactions)[j]>>, stoichiometry)
                /\ matrix[i][j] = 0
       /\ \A e \in DOMAIN stoichiometry :
             \E i \in DOMAIN metabolites, j \in DOMAIN reactions :
                 /\ stoichiometry[e][1] = <<Keys(metabolites)[i], Keys(reactions)[j]>>
                 /\ matrix[i][j] = stoichiometry[e][2]
       /\ AfterCall("stoichiometric_matrix") => returned = Some(matrix)

\* the matrix of a model with two metabolites and one reaction was returned,
\* with a coefficient and a 0 in it
C17_Witness ==
    /\ AfterCall("stoichiometric_matrix")
    /\ Len(metabolites) = 2 /\ Len(reactions) = 1
    /\ Len(returned[1]) = 2
    /\ \E i, k \in {1, 2} : returned[1][i][1] # 0 /\ returned[1][k][1] = 0

\* the metabolites that were in compartment c when the call was made
MetabolitesIn(c) ==
    {pre.metabolites[i][1] :
        i \in {j \in DOMAIN pre.metabolites : pre.metabolites[j][2].compartment = Some(c)}}

(* C18: remove_compartment(c, cascade) for an existing compartment c removes  *)
(* c; with cascade on every metabolite whose compartment is c is removed with *)
(* all the edges incident to it, and every other metabolite and edge is       *)
(* unchanged; with cascade off no metabolite and no edge is removed. For a c  *)
(* that is not in compartments the call changes nothing.                      *)
C18_RemoveCompartment ==
    AfterCall("remove_compartment") =>
        LET c == call.c_id
            gone == IF call.delete_metabolites THEN MetabolitesIn(c) ELSE {}
        IN /\ raised = ""
           /\ IF ~In(c, pre.compartments)
              THEN Self = pre
              ELSE /\ KeySet(compartments) = KeySet(pre.compartments) \ {c}
                   /\ \A k \in KeySet(compartments) :
                         Get(compartments, k) = Get(pre.compartments, k)
                   /\ KeySet(metabolites) = KeySet(pre.metabolites) \ gone
                   /\ \A k \in KeySet(metabolites) :
                         Get(metabolites, k) = Get(pre.metabolites, k)
                   /\ KeySet(stoichiometry) =
                         {k \in KeySet(pre.stoichiometry) : k[1] \notin gone}
                   /\ \A k \in KeySet(stoichiometry) :
                         Get(stoichiometry, k) = Get(pre.stoichiometry, k)
                   /\ [Self EXCEPT !.compartments = pre.compartments,
                                   !.metabolites = pre.metabolites,
                                   !.stoichiometry = pre.stoichiometry] = pre

\* a cascading removal took a metabolite that had an edge and left another
\* metabolite with its edge
C18_Witness ==
    /\ AfterCall("remove_compartment") /\ call.delete_metabolites
    /\ In(call.c_id, pre.compartments)
    /\ \E k \in KeySet(pre.stoichiometry) : k[1] \in MetabolitesIn(call.c_id)
    /\ metabolites # <<>>
    /\ stoichiometry # <<>>

\* the gene ids a rule text names
RECURSIVE NamesOf(_)
NamesOf(tree) ==
    IF tree[1] = "name" THEN {tree[2]}
    ELSE IF tree[1] = "not" THEN NamesOf(tree[2])
    ELSE NamesOf(tree[2]) \cup NamesOf(tree[3])

\* the truth of a rule text under the usual semantics of and, or, not and
\* parentheses, a gene reading as true iff it is in active
RECURSIVE Truth(_, _)
Truth(tree, active) ==
    IF tree[1] = "name" THEN tree[2] \in active
    ELSE IF tree[1] = "not" THEN ~Truth(tree[2], active)
    ELSE IF tree[1] = "and" THEN Truth(tree[2], active) /\ Truth(tree[3], active)
    ELSE Truth(tree[2], active) \/ Truth(tree[3], active)

RuleTree(r_id) == or_test(words(Get(rules, r_id)[1], <<>>), 1).tree
HasRule(r_id) == In(r_id, rules) /\ ~Falsy(Get(rules, r_id))
\* every rule of a reaction of the model names genes of the model only
RulesOverModelGenes ==
    \A r_id \in KeySet(reactions) :
        HasRule(r_id) => NamesOf(RuleTree(r_id)) \subseteq KeySet(genes)

(* C19: evalGPR(active) returns exactly the reaction ids of the model, in     *)
(* reaction insertion order, whose rule text is true under the usual          *)
(* semantics of and, or, not and parentheses when each gene of the model      *)
(* reads as true iff it is in active; a reaction whose rule is empty or unset *)
(* is always in the result. (Checked where every rule names genes of the      *)
(* model only.)                                                               *)
C19_EvalGPR ==
    (AfterCall("eval_GPR") /\ RulesOverModelGenes) =>
        /\ raised = ""
        /\ returned =
              Some(SelectSeq(Keys(reactions),
                             LAMBDA r_id : HasRule(r_id) =>
                                 Truth(RuleTree(r_id), call.active_genes)))

RECURSIVE HasNot(_)
HasNot(tree) ==
    IF tree[1] = "name" THEN FALSE
    ELSE IF tree[1] = "not" THEN TRUE
    ELSE HasNot(tree[2]) \/ HasNot(tree[3])

\* every rule of the model uses and, or and parentheses only, over genes of
\* the model
RulesPositiveOverModelGenes ==
    \A i \in DOMAIN rules :
        ~Falsy(rules[i][2]) =>
            LET tree == or_test(words(rules[i][2][1], <<>>), 1).tree
            IN ~HasNot(tree) /\ NamesOf(tree) \subseteq KeySet(genes)

(* C20: evalGPR is monotone for rules without not: on a model whose rules use *)
(* only and, or and parentheses over genes of the model, for active gene sets *)
(* A subset of B, every reaction id returned by evalGPR(A) is also returned   *)
(* by evalGPR(B).                                                             *)
C20_EvalGPRMonotone ==
    (IsGPRConstrained(Self) /\ RulesPositiveOverModelGenes) =>
        \A active_B \in SUBSET KeySet(genes) :
            \A active_A \in SUBSET active_B :
                LET res_A == eval_GPR(Self, active_A)
                    res_B == eval_GPR(Self, active_B)
                IN res_A.exc = "" =>
                       \A i \in DOMAIN res_A.value :
                           res_B.exc = "" /\ ListHas(res_B.value, res_A.value[i])

\* the call left bounds[r_id] = pair and nothing else of the model changed
OnlyBoundsOf(r_id, pair) ==
    /\ raised = ""
    /\ Keys(bounds) = Keys(pre.bounds)
    /\ Get(bounds, r_id) = pair
    /\ \A k \in KeySet(pre.bounds) \ {r_id} : Get(bounds, k) = Get(pre.bounds, k)
    /\ [Self EXCEPT !.bounds = pre.bounds] = pre

(* C21: set_lower_bound(r, lb) on a reaction r with bounds (l, u) leaves      *)
(* bounds[r] = (lb, u) and set_upper_bound(r, ub) leaves bounds[r] = (l, ub); *)
(* the other side of the pair, the bounds of every other reaction, reactions  *)
(* and stoichiometry are unchanged; when r is in reactions and has no bounds  *)
(* entry the call fails with a key error and changes nothing.                 *)
C21_PartialBoundUpdate ==
    /\ (AfterCall("set_lower_bound") /\ In(call.r_id, pre.reactions)) =>
          IF In(call.r_id, pre.bounds)
          THEN OnlyBoundsOf(call.r_id, <<call.lb, Get(pre.bounds, call.r_id)[2]>>)
          ELSE raised = "KeyError" /\ Self = pre
    /\ (AfterCall("set_upper_bound") /\ In(call.r_id, pre.reactions)) =>
          IF In(call.r_id, pre.bounds)
          THEN OnlyBoundsOf(call.r_id, <<Get(pre.bounds, call.r_id)[1], call.ub>>)
          ELSE raised = "KeyError" /\ Self = pre

\* set_lower_bound changed the lower bound of a reaction with a finite upper
\* bound while another reaction had bounds too
C21_Witness ==
    /\ AfterCall("set_lower_bound") /\ raised = ""
    /\ In(call.r_id, pre.reactions) /\ In(call.r_id, pre.bounds)
    /\ Get(pre.bounds, call.r_id)[1] # call.lb
    /\ Get(pre.bounds, call.r_id)[2] # None
    /\ Len(bounds) = 2

\* the id holds the letters b, i, o, m, a, s, s in a row, each in either case
BiomassLetters ==
    <<{"b", "B"}, {"i", "I"}, {"o", "O"}, {"m", "M"}, {"a", "A"}, {"s", "S"}, {"s", "S"}>>
NamesBiomass(r_id) ==
    \E i \in 0..Len(r_id) :
        /\ i + Len(BiomassLetters) <= Len(r_id)
        /\ \A j \in DOMAIN BiomassLetters : r_id[i + j] \in BiomassLetters[j]

(* C22: detect_biomass_reaction() returns the reaction id that comes first in *)
(* the current insertion order among the ids containing "biomass" in any      *)
(* letter case, returns none exactly when no reaction id contains it, and     *)
(* changes no state.                                                          *)
C22_DetectBiomassReaction ==
    AfterCall("detect_biomass_reaction") =>
        LET matching == {i \in DOMAIN reactions : NamesBiomass(reactions[i][1])}
        IN /\ raised = ""
           /\ Self = pre
           /\ IF matching = {}
              THEN returned = None
              ELSE returned = Some(reactions[CHOOSE i \in matching :
                                               \A k \in matching : i <= k][1])

\* the first of two matching ids was returned, written with capitals and
\* standing after an id that does not match
C22_Witness ==
    /\ AfterCall("detect_biomass_reaction")
    /\ Len(reactions) = 3
    /\ ~NamesBiomass(reactions[1][1])
    /\ reactions[2][1] = BioMass_1
    /\ reactions[3][1] = R_biomass
    /\ returned = Some(BioMass_1)

(* C23: make_irreversible is idempotent on a StoichiometricModel or           *)
(* ConstraintBasedModel: a second call directly after the first returns an    *)
(* empty mapping and leaves reactions, stoichiometry and bounds exactly as    *)
(* the first call left them.                                                  *)
C23_MakeIrreversibleIdempotent ==
    (AfterCall("make_irreversible") /\ ~IsGPRConstrained(Self)) =>
        LET second == make_irreversible(Self)
        IN /\ raised = ""
           /\ Ok(second.model)
           /\ second.mapping = {}
           /\ second.model.reactions = reactions
           /\ second.model.stoichiometry = stoichiometry
           /\ second.model.bounds = bounds

\* the second call was made on a ConstraintBasedModel whose reaction R the
\* first call had split, edges included
C23_Witness ==
    /\ AfterCall("make_irreversible") /\ kind = ConstraintBasedModel
    /\ In(Fwd(R), pre.reactions) /\ In(Bwd(R), pre.reactions)
    /\ EdgesOf(pre.stoichiometry, Bwd(R)) # {}
    /\ returned = Some({})
    /\ reactions = pre.reactions
    /\ stoichiometry = pre.stoichiometry
    /\ bounds = pre.bounds

\* lower bound <= upper bound whenever both are finite
WellFormed(pair) ==
    (pair[1] # None /\ pair[2] # None) => pair[1][1] <= pair[2][1]

AllRulesOverModelGenes ==
    \A i \in DOMAIN rules :
        ~Falsy(rules[i][2]) =>
            NamesOf(or_test(words(rules[i][2][1], <<>>), 1).tree) \subseteq KeySet(genes)

\* the model with the same genes and rules, every rule set after every gene
RulesSetLast ==
    [Self EXCEPT !.rule_functions =
        [i \in DOMAIN rules |-> <<rules[i][1], rule_to_function(Self, rules[i][2])>>]]

(* C25: the result of eval_GPR depends only on the current rule texts, the    *)
(* current gene set and the active set: when every gene named in a rule is in *)
(* the model, the call gives, without error, the result it gives on the model *)
(* with the same genes and rules in which every rule was set after every gene. *)
C25_EvalGPROrderIndependent ==
    (AfterCall("eval_GPR") /\ AllRulesOverModelGenes) =>
        LET other == eval_GPR(RulesSetLast, call.active_genes)
        IN /\ raised = "" /\ other.exc = ""
           /\ returned = Some(other.value)

(* C26: re-adding a reaction id that is already in the model replaces the    *)
(* reaction record and nothing of the graph: the reaction keeps its place and *)
(* every stoichiometry edge is kept unchanged, while on a ConstraintBasedModel *)
(* its bounds are overwritten by the lb/ub of the new call (unbounded when    *)
(* omitted) and on a GPRConstrainedModel its rule and compiled predicate are  *)
(* overwritten by the rule of the new call (constant true when omitted).      *)
C26_ReAddReaction ==
    (AfterCall("add_reaction") /\ In(call.reaction.id, pre.reactions)) =>
        LET r_id == call.reaction.id
        IN /\ raised = ""
           /\ Get(reactions, r_id) = call.reaction
           /\ Keys(reactions) = Keys(pre.reactions)
           /\ \A other \in KeySet(reactions) \ {r_id} :
                 Get(reactions, other) = Get(pre.reactions, other)
           /\ stoichiometry = pre.stoichiometry
           /\ metabolites = pre.metabolites
           /\ IsConstraintBased(Self) =>
                 /\ In(r_id, bounds)
                 /\ Get(bounds, r_id) = <<call.lb, call.ub>>
           /\ IsGPRConstrained(Self) =>
                 /\ In(r_id, rules) /\ In(r_id, rule_functions)
                 /\ Get(rules, r_id) = call.rule
                 /\ call.rule = None =>
                       Get(rule_functions, r_id) = <<"T", "r", "u", "e">>
                 /\ call.rule # None =>
                       Get(rule_functions, r_id) = rule_to_function(Self, call.rule)

\* a reaction with an edge, bounds and a rule is added again with another
\* record and the default bounds and rule
C26_Witness ==
    /\ AfterCall("add_reaction") /\ kind = GPRConstrainedModel
    /\ In(call.reaction.id, pre.reactions)
    /\ Get(pre.reactions, call.reaction.id) # call.reaction
    /\ EdgesOf(pre.stoichiometry, call.reaction.id) # {}
    /\ EdgesOf(stoichiometry, call.reaction.id)
          = EdgesOf(pre.stoichiometry, call.reaction.id)
    /\ Get(pre.bounds, call.reaction.id) = <<Some(0 - 2), Some(3)>>
    /\ Get(bounds, call.reaction.id) = <<None, None>>
    /\ Get(pre.rules, call.reaction.id) = Some(g1)
    /\ Get(rules, call.reaction.id) = None
    /\ Get(rule_functions, call.reaction.id) = <<"T", "r", "u", "e">>

=============================================================================
